---- MODULE Spec2Model ----
(***************************************************************************)
(* PyYapf: the Sublime Text 2 command 'yapf' (src/PyYapf.py).              *)
(*                                                                         *)
(* Text is modelled as a sequence of one-character strings, so that the    *)
(* string operations of failure_parser and smart_failure (split, strip,    *)
(* find, slices, int) are computed the way Python computes them.           *)
(***************************************************************************)
EXTENDS Integers, Sequences, FiniteSets, TLC

Chars(s) == [i \in 1..Len(s) |-> SubSeq(s, i, i)]

None == <<"None">>

\* F applied to the value of v, which is computed once
With(v, F(_)) == CHOOSE y \in {F(x) : x \in {v}} : TRUE

\* src/PyYapf.py:13
KEY == Chars("pyyapf")

(***************************************************************************)
(* Python string primitives used by the plugin.                            *)
(***************************************************************************)
Whitespace == {" ", "\n", "\t", "\r"}

Digits == Chars("0123456789")

Last(seq) == seq[Len(seq)]

\* s[from:] for from >= 0
SliceFrom(s, from) == SubSeq(s, from + 1, Len(s))

\* s[1:-1]
SliceInner(s) == SubSeq(s, 2, Len(s) - 1)

RECURSIVE lstrip(_, _)
lstrip(s, set) ==
    IF s # <<>> /\ Head(s) \in set THEN lstrip(Tail(s), set) ELSE s

RECURSIVE rstrip(_, _)
rstrip(s, set) ==
    IF s # <<>> /\ Last(s) \in set
    THEN rstrip(SubSeq(s, 1, Len(s) - 1), set)
    ELSE s

strip(s) == rstrip(lstrip(s, Whitespace), Whitespace)

\* s.find(c): 0-based index of the first c, -1 when absent
find(s, c) ==
    IF \E i \in 1..Len(s) : s[i] = c
    THEN (CHOOSE i \in 1..Len(s) :
              s[i] = c /\ \A j \in 1..(i - 1) : s[j] # c) - 1
    ELSE -1

RECURSIVE split(_, _)
split(s, sep) ==
    With(find(s, sep), LAMBDA i :
        IF i = -1
        THEN <<s>>
        ELSE <<SubSeq(s, 1, i)>> \o split(SliceFrom(s, i + 1), sep))

RECURSIVE join(_, _)
join(sep, parts) ==
    IF parts = <<>> THEN <<>>
    ELSE IF Len(parts) = 1 THEN parts[1]
    ELSE parts[1] \o <<sep>> \o join(sep, Tail(parts))

IsDecimal(s) == s # <<>> /\ \A i \in 1..Len(s) : \E d \in 1..10 : Digits[d] = s[i]

DigitVal(c) == (CHOOSE d \in 1..10 : Digits[d] = c) - 1

RECURSIVE DecimalVal(_)
DecimalVal(s) ==
    IF s = <<>> THEN 0
    ELSE DecimalVal(SubSeq(s, 1, Len(s) - 1)) * 10 + DigitVal(Last(s))

\* int(s): surrounding whitespace and one sign are accepted; anything else
\* raises ValueError (ok = FALSE)
int(s) ==
    With(strip(s), LAMBDA t :
      With(IF t # <<>> /\ t[1] \in {"+", "-"} THEN Tail(t) ELSE t, LAMBDA body :
        IF IsDecimal(body)
        THEN [ok |-> TRUE,
              val |-> IF t[1] = "-" THEN 0 - DecimalVal(body)
                      ELSE DecimalVal(body)]
        ELSE [ok |-> FALSE, val |-> 0]))

RECURSIVE NatToDec(_)
NatToDec(n) ==
    IF n < 10 THEN <<Digits[n + 1]>>
    ELSE NatToDec(n \div 10) \o <<Digits[(n % 10) + 1]>>

\* "%i" % n
FormatInt(n) == IF n < 0 THEN <<"-">> \o NatToDec(0 - n) ELSE NatToDec(n)

(***************************************************************************)
(* The editor's view: a text buffer, addressed by 0-based character        *)
(* offsets.  A region is a pair <<a, b>> of offsets.                       *)
(***************************************************************************)
Min(a, b) == IF a < b THEN a ELSE b

Max(a, b) == IF a > b THEN a ELSE b

Clamp(p, n) == Max(0, Min(p, n))

\* view.substr(region)
substr(text, region) == SubSeq(text, region[1] + 1, region[2])

\* view.replace(edit, region, output)
replace(text, region, output) ==
    SubSeq(text, 1, region[1]) \o output \o SubSeq(text, region[2] + 1, Len(text))

\* offset at which the 0-based row starts
RowStart(text, row) ==
    LET nl == {i \in 1..Len(text) : text[i] = "\n"}
    IN  IF row <= 0 THEN 0
        ELSE IF row > Cardinality(nl) THEN Len(text)
        ELSE CHOOSE i \in nl : Cardinality({j \in nl : j <= i}) = row

\* view.text_point(row, col)
text_point(text, row, col) == Clamp(RowStart(text, row) + col, Len(text))

\* view.line(point): the line containing the point, without its newline
line(text, point) ==
    LET p      == Clamp(point, Len(text))
        before == {i \in 1..Len(text) : text[i] = "\n" /\ i <= p}
        after  == {i \in 1..Len(text) : text[i] = "\n" /\ i - 1 >= p}
        a      == IF before = {} THEN 0
                  ELSE CHOOSE i \in before : \A j \in before : j <= i
        b      == IF after = {} THEN Len(text)
                  ELSE (CHOOSE i \in after : \A j \in after : i <= j) - 1
    IN  <<a, b>>

(***************************************************************************)
(* failure_parser                                                          *)
(***************************************************************************)
EmptyDict == [k \in {} |-> <<>>]

Put(d, k, v) == [x \in (DOMAIN d) \cup {k} |-> IF x = k THEN v ELSE d[x]]

StrFailure(text) == [type |-> "str", text |-> text]

\* the UnicodeEncodeError raised by unicode.encode; .message is empty for
\* an exception built from more than one argument
EncodeError(start) ==
    [type |-> "UnicodeEncodeError", start |-> start,
     reason |-> Chars("ordinal not in range(128)"), message |-> <<>>]

Raised == [ok |-> FALSE, err |-> <<>>, msg |-> <<>>, tval |-> EmptyDict]

Returned(err, msg, tval) == [ok |-> TRUE, err |-> err, msg |-> msg, tval |-> tval]

\* the value stored under 'context' for a character offset
OffsetContext(n) == Chars("(\"\", ") \o FormatInt(n) \o Chars(")")

\* the loop over detail.split(' '); st.ok = FALSE once a statement raised
RECURSIVE parse_elements(_, _)
parse_elements(elements, st) ==
    IF elements = <<>> \/ ~st.ok THEN st
    ELSE
      With(strip(Head(elements)), LAMBDA element :
        IF element = <<>> THEN parse_elements(Tail(elements), st)
        ELSE IF find(element, "=") # -1
        THEN With(split(element, "="), LAMBDA kv :
               IF Len(kv) # 2 \/ kv[2] = <<>>
               THEN [st EXCEPT !.ok = FALSE]
               ELSE parse_elements(Tail(elements),
                      [ok |-> TRUE,
                       key |-> kv[1],
                       stripped_comma |-> (Last(kv[2]) = ","),
                       tval |-> Put(st.tval, kv[1], rstrip(kv[2], {","}))]))
        ELSE IF st.key \notin DOMAIN st.tval
             THEN [st EXCEPT !.ok = FALSE]
             ELSE parse_elements(Tail(elements),
                    [st EXCEPT
                       !.stripped_comma = FALSE,
                       !.tval = Put(st.tval, st.key,
                                    st.tval[st.key] \o
                                    (IF st.stripped_comma
                                     THEN <<",", " ">> \o element
                                     ELSE element))]))

position_text_before_dash(msg) == Head(split(msg, "-"))

\* line 40: msg.split('-')[-1]
position_text(msg) == Last(split(msg, "-"))

\* lines 29-56: the branch for a string
parse_lastline(lastline) ==
    With(split(lastline, ":"), LAMBDA parts :
      IF Len(parts) < 2 THEN Raised
      ELSE IF parts[1] = Chars("UnicodeEncodeError")
      THEN With(int(position_text(parts[2])), LAMBDA position :
             IF position.ok
             THEN Returned(parts[1], parts[2],
                    Put(EmptyDict, Chars("context"), OffsetContext(position.val)))
             ELSE Raised)
      ELSE With(parse_elements(
                  split(join(":", SliceFrom(split(strip(lastline), ":"), 2)), " "),
                  [ok |-> TRUE, key |-> None,
                   stripped_comma |-> FALSE, tval |-> EmptyDict]),
                LAMBDA st :
                  IF st.ok THEN Returned(parts[1], parts[2], st.tval) ELSE Raised))

failure_parser(in_failure) ==
    IF in_failure.type = "UnicodeEncodeError"
    THEN Returned(in_failure.reason, in_failure.message,
                  Put(EmptyDict, Chars("context"), OffsetContext(in_failure.start)))
    ELSE With(Last(split(strip(in_failure.text), "\n")), parse_lastline)

(***************************************************************************)
(* smart_failure                                                           *)
(***************************************************************************)
\* sublime.error_message shows one modal dialog
FormattedMessage(err, msg, context_dict) ==
    [kind |-> "formatted", err |-> err, msg |-> msg, dict |-> context_dict]

TextMessage(text) == [kind |-> "text", text |-> text]

rowcol_point_as_given(text, row, col) == text_point(text, row, col)

\* line 108: the 1-based row and column of the message as a point of the view
rowcol_point(text, row, col) == text_point(text, row - 1, col - 1)

\* the point named by the 'context' value; ok = FALSE when a statement raises
\* lines 102-112: the point named by what follows the first argument
rowcol_or_offset(text, rowcol) ==
    IF rowcol = <<>> THEN [ok |-> FALSE, point |-> 0]
    ELSE IF rowcol[1] = "("
    THEN With(split(SliceInner(rowcol), ","), LAMBDA rc :
           IF Len(rc) # 2 THEN [ok |-> FALSE, point |-> 0]
           ELSE With(<<int(rc[1]), int(rc[2])>>, LAMBDA rowcol_ints :
                  IF rowcol_ints[2].ok /\ rowcol_ints[1].ok
                  THEN [ok |-> TRUE,
                        point |-> rowcol_point(text, rowcol_ints[1].val,
                                               rowcol_ints[2].val)]
                  ELSE [ok |-> FALSE, point |-> 0]))
    ELSE With(int(rowcol), LAMBDA p : [ok |-> p.ok, point |-> p.val])

context_point(text, context) ==
    With(SliceInner(context), LAMBDA inner :
      With(strip(SliceFrom(inner, find(inner, ",") + 1)), LAMBDA rowcol :
        rowcol_or_offset(text, rowcol)))

marker_regions_kept(old, region) == old \o <<region>>

\* lines 116-120: the regions under KEY after erase_regions(KEY) and
\* add_regions(KEY, [region], ...)
marker_regions(old, region) == <<region>>

\* The effect of smart_failure on a view with the given text and markers:
\* the dialogs it shows, the markers under KEY and the region scrolled to
\* afterwards, and whether an exception left it.
\* lines 96-121, for the value under 'context'
mark_context(text, markers, centered, shown, context) ==
    With(context_point(text, context), LAMBDA pt :
      IF ~pt.ok
      THEN [raised |-> TRUE, shown |-> shown, marked |-> FALSE,
            markers |-> markers, centered |-> centered]
      ELSE With(line(text, pt.point), LAMBDA region :
             [raised |-> FALSE, shown |-> shown, marked |-> TRUE,
              markers |-> marker_regions(markers, region),
              centered |-> region]))

smart_failure(in_failure, text, markers, centered) ==
    With(failure_parser(in_failure), LAMBDA parsed :
      IF ~parsed.ok
      THEN [raised |-> TRUE, shown |-> <<>>, marked |-> FALSE,
            markers |-> markers, centered |-> centered]
      ELSE IF Chars("context") \notin DOMAIN parsed.tval
      THEN [raised |-> FALSE, marked |-> FALSE,
            shown |-> <<FormattedMessage(parsed.err, parsed.msg, parsed.tval)>>,
            markers |-> markers, centered |-> centered]
      ELSE mark_context(text, markers, centered,
             <<FormattedMessage(parsed.err, parsed.msg, parsed.tval)>>,
             parsed.tval[Chars("context")]))

report_failure_uncaught(output_err, text, markers, centered) ==
    With(smart_failure(StrFailure(output_err), text, markers, centered), LAMBDA r :
      [shown |-> r.shown, marked |-> r.marked,
       markers |-> r.markers, centered |-> r.centered])

\* run, lines 190-197: smart_failure(output_err), and the raw stderr text in
\* a dialog when smart_failure raises
report_failure(output_err, text, markers, centered) ==
    With(smart_failure(StrFailure(output_err), text, markers, centered), LAMBDA r :
      [shown    |-> IF r.raised
                    THEN r.shown \o <<TextMessage(output_err)>>
                    ELSE r.shown,
       marked   |-> r.marked,
       markers  |-> r.markers,
       centered |-> r.centered])

(***************************************************************************)
(* Encodings.  A file holds bytes; the view holds characters.              *)
(***************************************************************************)
\* the printable ASCII characters of codes 32..95 and 97..126
AsciiLow ==
    Chars(" !\"#$%&'()*+,-./0123456789:;<=>?@ABCDEFGHIJKLMNOPQRSTUVWXYZ[\\]^_")

AsciiHigh == Chars("abcdefghijklmnopqrstuvwxyz{|}~")

\* a character outside ASCII (U+00E9)
EAcute == "é"

ord(c) ==
    IF c = "\n" THEN 10
    ELSE IF c = "\t" THEN 9
    ELSE IF c = "\r" THEN 13
    ELSE IF c = EAcute THEN 233
    ELSE IF \E i \in 1..Len(AsciiLow) : AsciiLow[i] = c
    THEN 31 + (CHOOSE i \in 1..Len(AsciiLow) : AsciiLow[i] = c)
    ELSE 96 + (CHOOSE i \in 1..Len(AsciiHigh) : AsciiHigh[i] = c)

chr(b) ==
    IF b = 10 THEN "\n"
    ELSE IF b = 9 THEN "\t"
    ELSE IF b = 13 THEN "\r"
    ELSE IF b = 233 THEN EAcute
    ELSE IF b <= 95 THEN AsciiLow[b - 31]
    ELSE AsciiHigh[b - 96]

\* run, lines 149-151
codec(encoding) == IF encoding = "Undefined" THEN "ascii" ELSE encoding

RECURSIVE utf8(_)
utf8(s) ==
    IF s = <<>> THEN <<>>
    ELSE (IF ord(Head(s)) < 128 THEN <<ord(Head(s))>>
          ELSE <<192 + (ord(Head(s)) \div 64), 128 + (ord(Head(s)) % 64)>>)
         \o utf8(Tail(s))

\* unicode.encode: the bytes, or UnicodeEncodeError with the 0-based index
\* (within s) of the first character the codec cannot encode
encode(s, enc) ==
    IF enc = "ascii"
    THEN IF \E i \in 1..Len(s) : ord(s[i]) >= 128
         THEN [ok |-> FALSE, bytes |-> <<>>,
               start |-> (CHOOSE i \in 1..Len(s) :
                              ord(s[i]) >= 128 /\ \A j \in 1..(i - 1) : ord(s[j]) < 128) - 1]
         ELSE [ok |-> TRUE, bytes |-> [i \in 1..Len(s) |-> ord(s[i])], start |-> 0]
    ELSE [ok |-> TRUE, bytes |-> utf8(s), start |-> 0]

\* codecs.open(...).read()
RECURSIVE decode(_, _)
decode(bytes, enc) ==
    IF bytes = <<>> THEN <<>>
    ELSE IF enc = "ascii" \/ Head(bytes) < 128
    THEN <<chr(Head(bytes))>> \o decode(Tail(bytes), enc)
    ELSE <<chr((Head(bytes) - 192) * 64 + (bytes[2] - 128))>>
         \o decode(SubSeq(bytes, 3, Len(bytes)), enc)

(***************************************************************************)
(* Bounds and input sets                                                   *)
(***************************************************************************)
\* lines 134-137: what smart_failure(err) does when encode raises
save_selection_failure(text, selection, enc, markers, centered) ==
    With(encode(substr(text, selection), enc), LAMBDA encoded :
      IF encoded.ok
      THEN [raised |-> FALSE, shown |-> <<>>, marked |-> FALSE,
            markers |-> markers, centered |-> centered]
      ELSE smart_failure(EncodeError(encoded.start), text, markers, centered))

\* number of times the command is invoked
MaxRuns == 2

\* number of regions in the selection of one invocation
MaxRegions == 2

\* the buffers the view may hold when the plugin is first used
InitTexts == {<<"a", "\n", EAcute>>, Chars("ab\nc")}

\* values of view.encoding()
Encodings == {"Undefined", "UTF-8"}

\* what the formatter may write to stderr during a run of the command
StderrSamples ==
    { <<>>,
      Chars("E: m: context=('', (2, 1))"),
      Chars("Traceback\nno colon"),
      Chars("E: m: context=('', (x, 1))"),
      Chars("E: m") }

\* what the formatter may leave in the file it edits in place
FormatterOutputs(content) == {content, <<ord("x")>>}

\* the regions a selection of the view may hold at or after offset floor
Regions(text, floor) ==
    {<<a, b>> : a \in floor..Len(text), b \in floor..Len(text)} \cap
    {r \in (0..Len(text)) \X (0..Len(text)) : r[1] <= r[2]}

(***************************************************************************)
(* State                                                                   *)
(***************************************************************************)
VARIABLES
    text,            \* the view's buffer
    markers,         \* the view's regions under KEY
    centered,        \* the region last passed to show_at_center, or None
    encoding,        \* view.encoding()
    use_entire,      \* setting use_entire_file_if_no_selection
    files,           \* the temp files that exist: name -> bytes
    pc,              \* position of run
    remaining,       \* regions of view.sel() the loop has not reached yet
    floor,           \* offset at which the rest of the selection starts
    region,          \* run's locals
    selection,
    py_filename,
    style_filename,
    output_err,
    output,
    messages,        \* dialogs shown while the current region is processed
    steps,           \* history: what was done for the current region
    text0,           \* history: the buffer when the region was reached
    created,         \* history: temp files created by the current run
    failures,        \* history: failures reported in the current run

    runs,            \* history: invocations of the command so far
    remarked,        \* history: add_regions was called while a marker existed
    escaped          \* history: the exception that ended the run, or "none"

vars == <<text, markers, centered, encoding, use_entire, files, pc, remaining,
          floor, region, selection, py_filename, style_filename, output_err,
          output, messages, steps, text0, created, failures, runs,
          remarked, escaped>>

view     == <<text, markers, centered>>
config   == <<encoding, use_entire>>
locals   == <<region, selection, py_filename, style_filename, output_err, output>>
history  == <<steps, text0, created, failures, runs, escaped>>

Init ==
    /\ text \in InitTexts
    /\ markers = <<>>
    /\ centered = None
    /\ encoding \in Encodings
    /\ use_entire \in BOOLEAN
    /\ files = EmptyDict
    /\ pc = "idle"
    /\ remaining = 0
    /\ floor = 0
    /\ region = None
    /\ selection = None
    /\ py_filename = None
    /\ style_filename = None
    /\ output_err = <<>>
    /\ output = <<>>
    /\ messages = <<>>
    /\ steps = <<>>
    /\ text0 = <<>>
    /\ created = {}
    /\ failures = {}

    /\ runs = 0
    /\ remarked = FALSE
    /\ escaped = "none"

\* tempfile.mkstemp: a name no existing file has
mkstemp(fs) ==
    <<"tmp", CHOOSE n \in 1..(Cardinality(DOMAIN fs) + 1) :
                 /\ <<"tmp", n>> \notin DOMAIN fs
                 /\ \A m \in 1..(n - 1) : <<"tmp", m>> \in DOMAIN fs>>

\* os.unlink
unlink(fs, name) == [n \in (DOMAIN fs) \ {name} |-> fs[n]]

\* the file save_style_to_tempfile writes for the default (empty) config
StyleFile == [i \in 1..Len(Chars("[style]\n\n")) |-> ord(Chars("[style]\n\n")[i])]

Range(seq) == {seq[i] : i \in 1..Len(seq)}

(***************************************************************************)
(* run, one action per step of the method                                  *)
(***************************************************************************)
select_whole_file_always(r, txt, entire) ==
    IF r[1] = r[2] THEN <<0, Len(txt)>> ELSE r

\* lines 158-165: what is formatted for a region of the selection
select(r, txt, entire) ==
    IF r[1] = r[2]
    THEN IF entire THEN <<0, Len(txt)>> ELSE None
    ELSE r

replaces_always(err) == TRUE

\* line 187: the condition under which the view is edited
replaces(err) == err = <<>>

after_report_retry(err) == IF err = <<>> THEN "unlink" ELSE "popen"

\* the statement reached after the if/else of lines 187-197
after_report(err) == "unlink"

\* lines 143-155: the command is invoked; view.sel() holds 1..MaxRegions regions
StartRun ==
    /\ pc \in {"idle", "done", "raised"}
    /\ runs < MaxRuns
    /\ \E n \in 1..MaxRegions : remaining' = n
    /\ pc' = "for"
    /\ floor' = 0
    /\ region' = None
    /\ selection' = None
    /\ py_filename' = None
    /\ style_filename' = None
    /\ output_err' = <<>>
    /\ output' = <<>>
    /\ messages' = <<>>
    /\ steps' = <<>>
    /\ text0' = text
    /\ created' = {}
    /\ failures' = {}

    /\ runs' = runs + 1
    /\ escaped' = "none"
    /\ UNCHANGED <<view, config, files, remarked>>

\* lines 157-167: the loop reaches the next region
ForRegion ==
    /\ pc = "for"
    /\ remaining > 0
    /\ \E r \in Regions(text, floor) :
        /\ region' = r
        /\ selection' = select(r, text, use_entire)
        /\ floor' = r[2]
    /\ remaining' = remaining - 1
    /\ messages' = IF selection' = None
                   THEN <<TextMessage(Chars("A selection is required"))>>
                   ELSE <<>>
    /\ pc' = IF selection' = None THEN "for" ELSE "save_selection"
    /\ py_filename' = None
    /\ style_filename' = None
    /\ output_err' = <<>>
    /\ output' = <<>>
    /\ steps' = <<>>
    /\ text0' = text
    /\ UNCHANGED <<view, config, files, created, failures, runs,
                   escaped, remarked>>

\* line 202: the loop is over
EndRun ==
    /\ pc = "for"
    /\ remaining = 0
    /\ pc' = "done"
    /\ UNCHANGED <<view, config, files, remaining, floor, locals, messages,
                   history, remarked>>

\* lines 168-169 and 125-141: save_selection_to_tempfile
SaveSelection ==
    /\ pc = "save_selection"
    /\ \E filename \in {mkstemp(files)},
          encoded \in {encode(substr(text, selection), codec(encoding))},
          r \in {save_selection_failure(text, selection, codec(encoding),
                                        markers, centered)} :
           /\ created' = created \cup {filename}
           /\ IF encoded.ok
              THEN /\ files' = Put(files, filename, encoded.bytes)
                   /\ py_filename' = filename
                   /\ steps' = steps \o <<"create_source", "read_selection",
                                          "write_source">>
                   /\ UNCHANGED <<markers, centered, messages, failures, remarked>>
              ELSE /\ files' = Put(files, filename, <<>>)
                   /\ py_filename' = None
                   /\ steps' = steps \o <<"create_source", "read_selection">>
                   /\ markers' = r.markers
                   /\ centered' = r.centered
                   /\ messages' = messages \o r.shown
                   /\ failures' = failures \cup {"encoding"}
                   /\ remarked' = (remarked \/ (r.marked /\ markers # <<>>))
    /\ pc' = "save_style"
    /\ UNCHANGED <<text, config, remaining, floor, region, selection,
                   style_filename, output_err, output, text0, runs,
                   escaped>>

\* lines 171-172 and 61-75: save_style_to_tempfile
SaveStyle ==
    /\ pc = "save_style"
    /\ style_filename' = mkstemp(files)
    /\ files' = Put(files, style_filename', StyleFile)
    /\ created' = created \cup {style_filename'}
    /\ steps' = steps \o <<"create_style">>
    /\ pc' = "popen"
    /\ UNCHANGED <<view, config, remaining, floor, region, selection,
                   py_filename, output_err, output, messages, text0, failures,
                   runs, escaped, remarked>>

\* line 178 with py_filename = None: Popen raises TypeError for an argument
\* list that holds None, and nothing in run catches it
PopenRaises ==
    /\ pc = "popen"
    /\ py_filename = None
    /\ pc' = "raised"
    /\ escaped' = "TypeError"
    /\ UNCHANGED <<view, config, files, remaining, floor, locals, messages,
                   steps, text0, created, failures, runs, remarked>>

\* lines 173-180: the formatter runs on the source file and is waited for
RunFormatter ==
    /\ pc = "popen"
    /\ py_filename # None
    /\ \E err \in StderrSamples, content \in FormatterOutputs(files[py_filename]) :
        /\ output_err' = err
        /\ files' = Put(files, py_filename, content)

    /\ steps' = steps \o <<"start_formatter">>
    /\ pc' = "read_back"
    /\ UNCHANGED <<view, config, remaining, floor, region, selection,
                   py_filename, style_filename, output, messages, text0,
                   created, failures, runs, escaped, remarked>>

\* lines 183-185
ReadBack ==
    /\ pc = "read_back"
    /\ output' = decode(files[py_filename], codec(encoding))
    /\ steps' = steps \o <<"read_back">>
    /\ pc' = "report"
    /\ UNCHANGED <<view, config, files, remaining, floor, region, selection,
                   py_filename, style_filename, output_err, messages, text0,
                   created, failures, runs, escaped, remarked>>

\* lines 187-197.  The editor keeps the rest of the selection behind the
\* text it has just replaced; where it puts cursors that were inside a
\* replaced whole buffer is not fixed here (floor 0).
ReplaceOrReport ==
    /\ pc = "report"
    /\ IF replaces(output_err)
       THEN /\ text' = replace(text, selection, output)
            /\ floor' = IF region[1] = region[2] THEN 0
                        ELSE selection[1] + Len(output)
            /\ steps' = steps \o <<"replace">>
            /\ UNCHANGED <<markers, centered, messages, failures, remarked>>
       ELSE \E r \in {report_failure(output_err, text, markers, centered)} :
                /\ markers' = r.markers
                /\ centered' = r.centered
                /\ messages' = messages \o r.shown
                /\ failures' = failures \cup {"stderr"}
                /\ steps' = steps \o <<"report">>
                /\ remarked' = (remarked \/ (r.marked /\ markers # <<>>))
                /\ UNCHANGED <<text, floor>>
    /\ pc' = after_report(output_err)
    /\ UNCHANGED <<config, files, remaining, locals, text0, created,
                   runs, escaped>>

\* lines 199-200
Unlink ==
    /\ pc = "unlink"
    /\ files' = unlink(unlink(files, py_filename), style_filename)
    /\ steps' = steps \o <<"delete">>
    /\ pc' = "for"
    /\ UNCHANGED <<view, config, remaining, floor, locals, messages, text0,
                   created, failures, runs, escaped, remarked>>

Next ==
    \/ StartRun
    \/ ForRegion
    \/ EndRun
    \/ SaveSelection
    \/ SaveStyle
    \/ PopenRaises
    \/ RunFormatter
    \/ ReadBack
    \/ ReplaceOrReport
    \/ Unlink

Spec == Init /\ [][Next]_vars

(***************************************************************************)
(* The error reporting of lines 187-197 on the formatter's stderr, for     *)
(* families of stderr texts.  Each initial state is run at line 187 of its *)
(* first region, the whole buffer, with the formatter's stderr in          *)
(* output_err.                                                             *)
(***************************************************************************)
\* largest row, column and character position named in a message
MaxRow == 4

MaxCol == 11

MaxPos == 11

ParserTexts == {Chars("abcdefghijkl\nmn\nop\nq"), <<"a", "\n", EAcute>>}

\* what stderr may hold before its last line
Prefixes ==
    { <<>>,
      Chars("Traceback (most recent call last):\n"),
      Chars("A: b: context=('', (9, 9))\n"),
      Chars("UnicodeEncodeError: p 0-0\n") }

Suffixes == { <<>>, <<"\n">> }

ContextLine(R, C) ==
    Chars("Err: msg: context=('', (") \o FormatInt(R) \o Chars(", ")
    \o FormatInt(C) \o Chars("))")

RangeLine(A, B) ==
    Chars("UnicodeEncodeError: 'ascii' codec can't encode characters in position ")
    \o FormatInt(A) \o <<"-">> \o FormatInt(B)
    \o Chars(": ordinal not in range(128)")

SingleLine(A) ==
    Chars("UnicodeEncodeError: 'ascii' codec can't encode character u'\\xe9' in position ")
    \o FormatInt(A) \o Chars(": ordinal not in range(128)")

BadPositionLines ==
    { Chars("UnicodeEncodeError: 'ascii' codec in position 3-: ordinal"),
      Chars("UnicodeEncodeError: 'ascii' codec in position 3-x: ordinal"),
      Chars("UnicodeEncodeError: 'ascii' codec in position 3-4 5: ordinal") }

OtherLines ==
    { Chars("no colon"),
      Chars("   "),
      Chars("E: m: token context=('', (1, 1))"),
      Chars("E: m: context=('', (x, 1))"),
      Chars("E: m: context=('', (1, y))"),
      Chars("E: m: context=('', (1, 2, 3))"),
      Chars("E: m: context="),
      Chars("E: m: context=5"),
      Chars("E: m: a=b=c"),
      Chars("E: m"),
      Chars("E: m: type=1, value=u'x'"),
      Chars("E: m: context=(\"\", 7)") }

ContextFamily ==
    {p \o ContextLine(R, C) \o s :
        p \in Prefixes, s \in Suffixes, R \in 1..MaxRow, C \in 1..MaxCol}

RangeFamily ==
    {p \o RangeLine(A, B) : p \in Prefixes, A \in 0..MaxPos, B \in 0..MaxPos}

SingleFamily == {p \o SingleLine(A) : p \in Prefixes, A \in 0..MaxPos}

OtherFamily ==
    {p \o l \o s : p \in Prefixes, l \in BadPositionLines \cup OtherLines,
                   s \in Suffixes}

ParserInputs == ContextFamily \cup RangeFamily \cup SingleFamily \cup OtherFamily

InitParser ==
    /\ text \in ParserTexts
    /\ markers = <<>>
    /\ centered = None
    /\ encoding = "UTF-8"
    /\ use_entire = TRUE
    /\ py_filename = <<"tmp", 1>>
    /\ style_filename = <<"tmp", 2>>
    /\ files = Put(Put(EmptyDict, py_filename, encode(text, codec(encoding)).bytes),
                   style_filename, StyleFile)
    /\ pc = "report"
    /\ remaining = 0
    /\ floor = Len(text)
    /\ region = <<0, Len(text)>>
    /\ selection = region
    /\ output_err \in ParserInputs
    /\ output = text
    /\ messages = <<>>
    /\ steps = <<"create_source", "read_selection", "write_source",
                 "create_style", "start_formatter", "read_back">>
    /\ text0 = text
    /\ created = {py_filename, style_filename}
    /\ failures = {}
    /\ runs = 1
    /\ remarked = FALSE
    /\ escaped = "none"

NextParser == ReplaceOrReport

ParserSpec == InitParser /\ [][NextParser]_vars

(***************************************************************************)
(* Properties                                                              *)
(***************************************************************************)
RunEnded == pc \in {"done", "raised"}

IsProcessStep(s) == s \notin {"create_source", "create_style"}

\* the steps of the current region, temp-file creation left out
ProcessSteps == SelectSeq(steps, IsProcessStep)

FullOrder(last) ==
    <<"read_selection", "write_source", "start_formatter", "read_back",
      last, "delete">>

IsPrefix(a, b) == Len(a) <= Len(b) /\ SubSeq(b, 1, Len(a)) = a

\* the formatter process is started by this step
FormatterStarts == pc = "popen" /\ pc' = "read_back"

\* smart_failure raises on the stderr of the current region
ExtractionRaises ==
    smart_failure(StrFailure(output_err), text0, <<>>, None).raised

RequiredMessage == TextMessage(Chars("A selection is required"))

\* offset in the view of the first character of the selection that the
\* codec cannot encode
FirstUnencodable ==
    CHOOSE i \in selection[1]..(selection[2] - 1) :
        /\ ord(text[i + 1]) >= 128
        /\ \A j \in selection[1]..(i - 1) : ord(text[j + 1]) < 128

\* C1: when a run of the command has ended, by reaching the end of the loop
\* or by an exception, no temp file created during that run exists any more.
C1_TempFilesDeleted ==
    RunEnded => created \cap DOMAIN files = {}

\* C2: the steps taken for a region are always an initial part of the order
\* read selection, write source file, start formatter, read back, replace or
\* report, delete; and when the processing of a region has ended all of
\* them have been taken.
C2_StepsInOrder ==
    /\ \E last \in {"replace", "report"} : IsPrefix(ProcessSteps, FullOrder(last))
    /\ (pc \in {"for", "done", "raised"} /\ steps # <<>>)
          => \E last \in {"replace", "report"} : ProcessSteps = FullOrder(last)

\* C3: after the report step, non-empty stderr has put at least one dialog
\* on the screen; and when smart_failure raised on that stderr, the raw
\* stderr text is among the dialogs and no exception has left run.
C3_StderrAlwaysShown ==
    (pc = "unlink" /\ output_err # <<>>) =>
        /\ Len(messages) >= 1
        /\ ExtractionRaises =>
              /\ TextMessage(output_err) \in Range(messages)
              /\ escaped = "none"

C3_Witness ==
    /\ pc = "unlink"
    /\ ExtractionRaises
    /\ Len(messages) = 2
    /\ messages[2] = TextMessage(output_err)

\* C4 as stated: once a failure has been reported in a run, no step of that
\* run starts the formatter.
C4_NoStartAfterFailure ==
    [][(failures # {} /\ runs' = runs) => ~FormatterStarts]_vars

\* C4 as amended: once stderr has been reported for the current region the
\* formatter is not started again for that region, and once an encoding
\* error has been reported it is not started again in that run.
C4_NoRetry ==
    [][(runs' = runs /\ ("report" \in Range(steps) \/ "encoding" \in failures))
          => ~FormatterStarts]_vars

\* the formatter has been started for a later region after a reported failure
C4_Witness ==
    /\ "stderr" \in failures
    /\ pc = "read_back"
    /\ "report" \notin Range(steps)

\* C5: an empty region is formatted as the whole buffer when the setting is
\* true, and is skipped with the dialog 'A selection is required', without a
\* temp file, a formatter or an edit, when it is false; a non-empty region
\* is formatted as itself; the source file holds the encoded text of what
\* is formatted.
C5_SelectionRule ==
    /\ pc \in {"save_selection", "save_style"} =>
          /\ selection = (IF region[1] = region[2] THEN <<0, Len(text)>> ELSE region)
          /\ region[1] = region[2] => use_entire
    /\ (pc = "save_style" /\ py_filename # None) =>
          files[py_filename] =
             encode(substr(text, IF region[1] = region[2]
                                 THEN <<0, Len(text)>> ELSE region),
                    codec(encoding)).bytes
    /\ (region # None /\ ~use_entire) =>
          (region[1] = region[2] =>
              /\ selection = None
              /\ pc \in {"for", "done"}
              /\ steps = <<>>
              /\ messages = <<RequiredMessage>>
              /\ text = text0)

C5_Witness ==
    /\ pc = "save_style"
    /\ region[1] = region[2]
    /\ 0 < region[1]
    /\ py_filename # None
    /\ Len(files[py_filename]) > 1

\* C6: after an encoding error of the selection a dialog has been shown and
\* the marker is the line of the view that holds the character that could
\* not be encoded.
C6_MarkerOnOffendingLine ==
    (pc = "save_style" /\ py_filename = None) =>
        /\ Len(messages) >= 1
        /\ markers = <<line(text, FirstUnencodable)>>

\* C7: while a region is processed the buffer is the one the region was
\* reached with; after the report step it is that buffer with the selection
\* replaced by the decoded content of the source file if stderr was empty,
\* and unchanged otherwise.
C7_ReplaceIffNoStderr ==
    /\ pc \in {"save_selection", "save_style", "popen", "read_back", "report"}
          => text = text0
    /\ pc = "unlink" =>
          IF output_err = <<>>
          THEN /\ "replace" \in Range(steps)
               /\ text = replace(text0, selection,
                                 decode(files[py_filename], codec(encoding)))
          ELSE /\ "replace" \notin Range(steps)
               /\ text = text0

C7_Witness ==
    /\ pc = "unlink"
    /\ output_err = <<>>
    /\ text # text0
    /\ selection # <<0, Len(text0)>>

\* C8: for stderr whose last line is Err: msg: context=('', (R, C)),
\* failure_parser returns Err, ' msg' and the context value "('', (R,C))",
\* and the marker and the centered region are the line of
\* text_point(R - 1, C - 1), whatever the earlier lines of stderr hold.
C8_ContextLocation ==
    pc = "unlink" =>
      \A p \in Prefixes, s \in Suffixes, R \in 1..MaxRow, C \in 1..MaxCol :
        (output_err = p \o ContextLine(R, C) \o s) =>
          /\ failure_parser(StrFailure(output_err)) =
               Returned(Chars("Err"), Chars(" msg"),
                        Put(EmptyDict, Chars("context"),
                            Chars("('', (") \o FormatInt(R) \o <<",">>
                            \o FormatInt(C) \o Chars("))")))
          /\ markers = <<line(text, text_point(text, R - 1, C - 1))>>
          /\ centered = line(text, text_point(text, R - 1, C - 1))

C8_Witness ==
    /\ pc = "unlink"
    /\ output_err = Chars("A: b: context=('', (9, 9))\n") \o ContextLine(3, 2)
    /\ text = Chars("abcdefghijkl\nmn\nop\nq")
    /\ markers = << <<16, 18>> >>

\* C9 as stated: for a last line UnicodeEncodeError: ... position A-B the
\* context is ("", B) and the marker the line of offset B, and for a last
\* line UnicodeEncodeError: ... position A the context is ("", A) and the
\* marker the line of offset A.
C9_PositionLocation ==
    pc = "unlink" =>
      \A p \in Prefixes, A \in 0..MaxPos :
        /\ \A B \in 0..MaxPos :
             (output_err = p \o RangeLine(A, B)) =>
               /\ failure_parser(StrFailure(output_err)).tval =
                    Put(EmptyDict, Chars("context"), OffsetContext(B))
               /\ markers = <<line(text, B)>>
        /\ (output_err = p \o SingleLine(A)) =>
               /\ failure_parser(StrFailure(output_err)).tval =
                    Put(EmptyDict, Chars("context"), OffsetContext(A))
               /\ markers = <<line(text, A)>>

\* C9 as amended: for position A-B the context is ("", B) and the marker and
\* the centered region are the line of offset B; for a single position A,
\* and for a position whose text after the last '-' is not an integer,
\* failure_parser raises, the raw stderr text is the only dialog and no
\* marker is set.
C9_RangePositionLocation ==
    pc = "unlink" =>
      /\ \A p \in Prefixes, A \in 0..MaxPos, B \in 0..MaxPos :
           (output_err = p \o RangeLine(A, B)) =>
             /\ failure_parser(StrFailure(output_err)).ok
             /\ failure_parser(StrFailure(output_err)).tval =
                  Put(EmptyDict, Chars("context"), OffsetContext(B))
             /\ markers = <<line(text, B)>>
             /\ centered = line(text, B)
             /\ Len(messages) = 1 /\ messages[1].kind = "formatted"
      /\ (\/ \E p \in Prefixes, A \in 0..MaxPos : output_err = p \o SingleLine(A)
          \/ \E p \in Prefixes, l \in BadPositionLines, s \in Suffixes :
                output_err = p \o l \o s) =>
             /\ ~failure_parser(StrFailure(output_err)).ok
             /\ messages = <<TextMessage(output_err)>>
             /\ markers = <<>>

C9_Witness ==
    /\ pc = "unlink"
    /\ output_err = Chars("Traceback (most recent call last):\n") \o RangeLine(3, 10)
    /\ text = Chars("abcdefghijkl\nmn\nop\nq")
    /\ markers = << <<0, 12>> >>

\* C10: the view never holds more than one region under KEY, and the
\* regions under KEY change only in the steps that call smart_failure.
C10_AtMostOneMarker ==
    /\ [](Len(markers) <= 1)
    /\ [][markers' # markers => pc \in {"save_selection", "report"}]_vars

C10_Witness ==
    /\ remarked
    /\ Len(markers) = 1
    /\ runs = MaxRuns

====
